---- MODULE Spec2Model ----
(***************************************************************************)
(* Command dispatch (agent/server/endpoints.py) and the WebSocket client   *)
(* (bot/ws_client.py) of llm-backend as state machines.                    *)
(*                                                                         *)
(* Text (str) is a tuple of one-character strings, bytes a tuple of        *)
(* integers 0..255.  Python values carried by params are tagged records.   *)
(* A backend operation is an await whose answer (a value or a raised       *)
(* Exception) the environment picks when the action fires.                 *)
(***************************************************************************)
EXTENDS Integers, Sequences, FiniteSets, TLC

(***************************************************************************)
(* Python values                                                           *)
(***************************************************************************)
None == [t |-> "None"]
Missing == [t |-> "missing"]
Str(s) == [t |-> "str", chars |-> s]
Bytes(b) == [t |-> "bytes", octets |-> b]
ByteArray(b) == [t |-> "bytearray", octets |-> b]
IntVal(i) == [t |-> "int", int |-> i]
Bool(b) == [t |-> "bool", bool |-> b]

\* bool(v) for the values above
Truthy(v) ==
    CASE v.t = "None" -> FALSE
      [] v.t = "str" -> Len(v.chars) > 0
      [] v.t \in {"bytes", "bytearray"} -> Len(v.octets) > 0
      [] v.t = "int" -> v.int # 0
      [] v.t = "bool" -> v.bool
      [] OTHER -> FALSE

\* params.get(key): the value, or None when the key is absent
ParamsGet(p, key) == IF p[key] = Missing THEN None ELSE p[key]

(***************************************************************************)
(* base64.b64decode(s.encode()) with validate=False                        *)
(***************************************************************************)
B64Alphabet ==
    << "A","B","C","D","E","F","G","H","I","J","K","L","M","N","O","P",
       "Q","R","S","T","U","V","W","X","Y","Z","a","b","c","d","e","f",
       "g","h","i","j","k","l","m","n","o","p","q","r","s","t","u","v",
       "w","x","y","z","0","1","2","3","4","5","6","7","8","9","+","/" >>

IsB64Char(c) == \E i \in 1..64 : B64Alphabet[i] = c

B64Value(c) == (CHOOSE i \in 1..64 : B64Alphabet[i] = c) - 1

\* One pass of binascii.a2b_base64 over the characters from position i on.
\* quad is the position in the current group of four, left the bits carried
\* over, pads the pad characters seen in a row, out the bytes decoded so far.
RECURSIVE A2bBase64(_, _, _, _, _, _)
A2bBase64(s, i, quad, left, pads, out) ==
    IF i > Len(s)
    THEN IF quad # 0 THEN [ok |-> FALSE, octets |-> << >>]
                     ELSE [ok |-> TRUE, octets |-> out]
    ELSE LET c == s[i] IN
         IF c = "="
         THEN IF quad >= 2 /\ quad + pads + 1 >= 4
              THEN [ok |-> TRUE, octets |-> out]
              ELSE A2bBase64(s, i + 1, quad, left,
                             IF quad >= 2 THEN pads + 1 ELSE pads, out)
         ELSE IF ~IsB64Char(c)
         THEN A2bBase64(s, i + 1, quad, left, pads, out)
         ELSE LET v == B64Value(c) IN
              CASE quad = 0 -> A2bBase64(s, i + 1, 1, v, 0, out)
                [] quad = 1 -> A2bBase64(s, i + 1, 2, v % 16, 0,
                                   Append(out, (left * 4 + v \div 16) % 256))
                [] quad = 2 -> A2bBase64(s, i + 1, 3, v % 4, 0,
                                   Append(out, (left * 16 + v \div 4) % 256))
                [] OTHER    -> A2bBase64(s, i + 1, 0, 0, 0,
                                   Append(out, (left * 64 + v) % 256))

\* ok = FALSE stands for binascii.Error (a ValueError)
b64decode(s) == A2bBase64(s, 1, 0, 0, 0, << >>)

(***************************************************************************)
(* pathlib / posixpath / mimetypes                                         *)
(***************************************************************************)
RECURSIVE RFind(_, _, _)
\* s.rfind(c) over positions 1..i, 0 when absent
RFind(s, c, i) == IF i = 0 THEN 0 ELSE IF s[i] = c THEN i ELSE RFind(s, c, i - 1)

RECURSIVE StripTrailingSep(_)
StripTrailingSep(s) ==
    IF Len(s) > 1 /\ s[Len(s)] = "/" THEN StripTrailingSep(SubSeq(s, 1, Len(s) - 1))
    ELSE s

\* Path(p).name: the last component of the path
PathName(p) ==
    LET q == StripTrailingSep(p)
        k == RFind(q, "/", Len(q))
    IN SubSeq(q, k + 1, Len(q))

\* Path(a) / b / c rendered by str()
JoinPath(a, b, c) == a \o <<"/">> \o b \o <<"/">> \o c

\* posixpath.splitext: <<root, ext>>; the dots that lead the last component
\* do not start an extension
splitext(p) ==
    LET sepIndex == RFind(p, "/", Len(p))
        dotIndex == RFind(p, ".", Len(p))
    IN IF dotIndex > sepIndex
          /\ \E k \in (sepIndex + 1)..(dotIndex - 1) : p[k] # "."
       THEN << SubSeq(p, 1, dotIndex - 1), SubSeq(p, dotIndex, Len(p)) >>
       ELSE << p, << >> >>

LowerChar(c) ==
    CASE c = "M" -> "m" [] c = "P" -> "p" [] c = "S" -> "s"
      [] c = "W" -> "w" [] c = "A" -> "a" [] c = "V" -> "v"
      [] c = "T" -> "t" [] c = "X" -> "x" [] c = "G" -> "g" [] c = "Z" -> "z"
      [] OTHER -> c

lower(s) == [i \in 1..Len(s) |-> LowerChar(s[i])]

\* mimetypes.encodings_map, the entry the file names below can reach
encodings_map == { <<".", "g", "z">> }

\* mimetypes.types_map restricted to the extensions of the file names below;
\* a type is <<major, minor>>, so "audio/mpeg".startswith("audio") reads [1]
types_map(ext) ==
    CASE ext = <<".", "m", "p", "3">> -> <<"audio", "mpeg">>
      [] ext = <<".", "w", "a", "v">> -> <<"audio", "x-wav">>
      [] ext = <<".", "t", "x", "t">> -> <<"text", "plain">>
      [] ext = <<".", "m", "p", "4">> -> <<"video", "mp4">>
      [] OTHER -> << >>

\* mimetypes.guess_type(path)[0]; << >> stands for None
guess_type(path) ==
    LET first == splitext(path)
        second == IF first[2] \in encodings_map THEN splitext(first[1]) ELSE first
    IN types_map(lower(second[2]))

\* mime and mime.startswith("audio")
IsAudio(mime) == mime # << >> /\ mime[1] = "audio"

(***************************************************************************)
(* Inputs of one dispatch                                                  *)
(***************************************************************************)
\* The user of the invocation context and config.upload_dir
User == <<"b">>
UploadDir == <<"u">>

FileNames ==
    { <<"s", ".", "m", "p", "3">>,
      <<"n", ".", "t", "x", "t">>,
      <<"c", ".", "W", "A", "V">>,
      <<"v", ".", "m", "p", "4">>,
      <<"s", ".", "m", "p", "3", ".", "g", "z">>,
      <<".", "m", "p", "3">> }

FilePaths ==
    { <<"d", "/", "s", ".", "m", "p", "3">>,
      <<"n", ".", "t", "x", "t">>,
      <<"d", ".", "m", "p", "3", "/", "x">>,
      <<"d", "/", "c", ".", "w", "a", "v", "/">> }

FileDataValues ==
    { Missing, None,
      Bytes(<<65>>), ByteArray(<<65, 66>>),
      Str(<<"Q", "U", "J", "D">>), Str(<<"Q", "Q", "=", "=">>),
      Str(<<"Q", "U", "I">>), Str(<<"!", "!", "!", "!">>), Str(<< >>),
      IntVal(7) }

FileNameValues == { Missing, None, Str(<< >>) } \cup { Str(n) : n \in FileNames }

FilePathValues == { Missing } \cup { Str(p) : p \in FilePaths }

\* The keys a handler reads with params[...], and prompt and raw; the other
\* keys the handlers read with params.get (timeout, delay, dest, content,
\* data, memory) are absent from the dispatches modelled, so their defaults
\* apply
NoParams ==
    [file_data |-> Missing, file_name |-> Missing, file_path |-> Missing,
     path |-> Missing, command |-> Missing, message |-> Missing,
     prompt |-> Missing, raw |-> Missing]

UploadParams ==
    [file_data : FileDataValues, file_name : FileNameValues, file_path : FilePathValues,
     path : {Missing}, command : {Missing}, message : {Missing},
     prompt : {Missing}, raw : {Missing}]

\* The key each handler reads with params[...], "" when it reads none
RequiredKey(h) ==
    CASE h \in {"_list_dir_handler", "_read_file_handler", "_write_file_handler",
                "_delete_path_handler", "_download_file_handler"} -> "path"
      [] h \in {"_vm_execute_handler", "_vm_execute_stream_handler"} -> "command"
      [] h = "_send_notification_handler" -> "message"
      [] OTHER -> ""

ArgText == <<"x">>

\* The arguments of a dispatch that carries the handler's required key
MinimalParams(h) ==
    IF RequiredKey(h) = "" THEN NoParams
    ELSE [NoParams EXCEPT ![RequiredKey(h)] = Str(ArgText)]

\* The arguments of the dispatches of a streaming command
StreamParams(h) ==
    IF h = "_team_chat_handler"
    THEN { NoParams, [NoParams EXCEPT !["prompt"] = Str(<<"h", "i">>)] }
    ELSE { NoParams } \cup
         { [NoParams EXCEPT !["command"] = Str(ArgText), !["raw"] = r] :
               r \in { Missing, Bool(TRUE), Bool(FALSE) } }

\* str(params.get("prompt", ""))
PromptOf(p) == IF p["prompt"] = Missing THEN << >> ELSE p["prompt"].chars

\* bool(params.get("raw", True))
RawOf(p) == IF p["raw"] = Missing THEN TRUE ELSE Truthy(p["raw"])

\* Locations the store backend answers with, and transcript locations
\* (the empty one is falsy)
StoreResults == { "doc1", "doc2" }
TranscriptResults == { "", "tr1" }

(***************************************************************************)
(* The handler registry                                                    *)
(***************************************************************************)
RegisteredCommands ==
    { "team_chat", "chat", "upload_document", "list_dir", "read_file",
      "write_file", "delete_path", "download_file", "vm_execute",
      "vm_execute_stream", "vm_input", "vm_keys", "send_notification",
      "list_sessions", "list_sessions_info", "list_documents", "get_memory",
      "set_memory", "reset_memory", "restart_terminal" }

UnknownCommands == { "", "upload", "Team_Chat" }

\* A lookup that falls back to a handler instead of answering None
_HANDLERS_get_default(cmd) ==
    CASE cmd \in {"team_chat", "chat"} -> "_team_chat_handler"
      [] cmd = "vm_input" -> "_vm_input_handler"
      [] cmd = "vm_keys" -> "_vm_keys_handler"
      [] cmd \in RegisteredCommands -> "_" \o cmd \o "_handler"
      [] OTHER -> "_list_sessions_handler"

\* _HANDLERS.get(command): the handler's name, "None" when unregistered
_HANDLERS_get(cmd) ==
    CASE cmd \in {"team_chat", "chat"} -> "_team_chat_handler"
      [] cmd = "vm_input" -> "_vm_input_handler"
      [] cmd = "vm_keys" -> "_vm_keys_handler"
      [] cmd \in RegisteredCommands -> "_" \o cmd \o "_handler"
      [] OTHER -> "None"

\* sanitize_filename(file_name) lives in agent/utils/helpers: any file name
\* may come back, the given one included
sanitize_filename(name) == FileNames \cup { name }

(***************************************************************************)
(* State                                                                   *)
(***************************************************************************)
VARIABLES
    command,          \* dispatch_command's command argument
    params,           \* its params argument: None or a mapping
    chat,             \* TRUE when a TeamChatSession is passed
    pc,               \* where the dispatch generator stands
    handler,          \* the handler resolved from _HANDLERS, "None" before
    result,           \* upload handler: the store backend's answer
    local_path,       \* upload handler: str(local_path)
    transcript_path,  \* upload handler: the transcription backend's answer
    produced,         \* parts the handler has yielded to dispatch_command
    frames,           \* parts dispatch_command has yielded to its consumer
    log,              \* backend operations awaited so far, in order
    logged,           \* _LOG.error records written
    error,            \* the exception raised out of dispatch_command, or "none"
    pulled,           \* items the backend stream has produced, in order
    buffer            \* chunks the coalescing adapter holds back

dvars == << command, params, chat, pc, handler, result, local_path,
            transcript_path, produced, frames, log, logged, error,
            pulled, buffer >>

\* The other dispatch_command invocation of the hosting process, suspended
\* while this one runs; NoInvocation when there is none
VARIABLE other

VARIABLES
    call,        \* the method called: request, team_chat_stream, vm_execute_stream
    cpc,         \* where the call stands
    conn,        \* the connection: open, closing (the client's close
                 \* handshake under way), closed, or aborted (closed
                 \* abnormally)
    waited,      \* ticks the current wait for a frame has lasted
    elapsed,     \* ticks since the command was sent
    arrived_at,  \* the tick at which the last frame arrived, 0 before any
    event,       \* how the last wait ended: frame, timeout, closed,
                 \* aborted; aclose once the consumer closed the generator
    raw,         \* the frame the last wait returned
    received,    \* every frame received, in arrival order
    relayed,     \* the frames a streaming call has yielded to its caller
    ret,         \* what request returned
    failure      \* the exception raised to the caller, or "none"

cvars == << call, cpc, conn, waited, elapsed, arrived_at, event, raw, received,
            relayed, ret, failure >>

vars == << dvars, other, cvars >>

\* json.dumps({"result": value})
Envelope(value) == [result |-> value]

\* One awaited backend operation and whether it returned or raised
Call(op, arg, ok) == [op |-> op, arg |-> arg, ok |-> ok]

\* One awaited backend operation that returned answer
Answered(op, arg, answer) == [op |-> op, arg |-> arg, ok |-> TRUE, answer |-> answer]

NoInvocation == [t |-> "none"]

\* f"File uploaded: {location}"
UploadedMessage(location) == [t |-> "message", prefix |-> "File uploaded: ", about |-> location]

\* The handler yields part and dispatch_command forwards whatever it is
Yield_unfiltered(part) ==
    /\ produced' = Append(produced, part)
    /\ frames' = Append(frames, part)

\* The handler yields part; dispatch_command forwards it unless it is None
\* (lines 416-419)
Yield(part) ==
    /\ produced' = Append(produced, part)
    /\ frames' = IF part = None THEN frames ELSE Append(frames, part)

\* An exception leaves the handler and dispatch_command
Raise(exc) ==
    /\ pc' = "raised"
    /\ error' = exc

DispatchInit ==
    /\ command \in RegisteredCommands \cup UnknownCommands
    /\ params \in IF command = "upload_document"
                   THEN UploadParams \cup { None }
                   ELSE IF command \in {"team_chat", "chat", "vm_execute_stream"}
                   THEN StreamParams(_HANDLERS_get(command)) \cup { None }
                   ELSE { None, NoParams, MinimalParams(_HANDLERS_get(command)) }
    /\ chat \in BOOLEAN
    /\ pc = "created"
    /\ handler = "None"
    /\ result = ""
    /\ local_path = << >>
    /\ transcript_path = ""
    /\ produced = << >>
    /\ frames = << >>
    /\ log = << >>
    /\ logged = 0
    /\ error = "none"
    /\ pulled = << >>
    /\ buffer = << >>

(***************************************************************************)
(* dispatch_command, lines 410-416: the consumer asks for the first part   *)
(***************************************************************************)
dispatch_command ==
    /\ pc = "created"
    /\ params' = IF params = None THEN NoParams ELSE params
    /\ handler' = _HANDLERS_get(command)
    /\ IF handler' = "None"
       THEN Raise("ValueError: Unknown command")
       ELSE pc' = "handler" /\ UNCHANGED error
    /\ UNCHANGED << command, chat, result, local_path, transcript_path,
                    produced, frames, log, logged >>
    /\ UNCHANGED << pulled, buffer, other, cvars >>

(***************************************************************************)
(* _upload_document_handler                                                *)
(***************************************************************************)
\* lines 89-113: validate the arguments, store the file
UploadStore ==
    /\ pc = "handler"
    /\ handler = "_upload_document_handler"
    /\ LET file_data == ParamsGet(params, "file_data")
           file_name == ParamsGet(params, "file_name")
       IN IF file_data # None
          THEN IF ~Truthy(file_name)
               THEN /\ Raise("ValueError: file_name required when file_data provided")
                    /\ UNCHANGED << result, local_path, log >>
               ELSE IF file_data.t = "str" /\ ~b64decode(file_data.chars).ok
               THEN /\ Raise("binascii.Error")
                    /\ UNCHANGED << result, local_path, log >>
               ELSE IF file_data.t \notin {"str", "bytes", "bytearray"}
               THEN /\ Raise("TypeError: file_data must be bytes or base64 string")
                    /\ UNCHANGED << result, local_path, log >>
               ELSE LET data == IF file_data.t = "str"
                                THEN b64decode(file_data.chars).octets
                                ELSE file_data.octets
                        arg == [t |-> "data", octets |-> data, name |-> file_name.chars]
                    IN \/ /\ log' = Append(log, Call("upload_data", arg, FALSE))
                          /\ Raise("Exception: upload_data")
                          /\ UNCHANGED << result, local_path >>
                       \/ \E location \in StoreResults,
                             safe \in sanitize_filename(file_name.chars) :
                            /\ log' = Append(log, Answered("upload_data", arg, location))
                            /\ result' = location
                            /\ local_path' = JoinPath(UploadDir, User, safe)
                            /\ pc' = "stored"
                            /\ UNCHANGED error
          ELSE IF params["file_path"] = Missing
               THEN /\ Raise("KeyError: file_path")
                    /\ UNCHANGED << result, local_path, log >>
               ELSE LET file_path == params["file_path"].chars
                        arg == Str(file_path)
                    IN \/ /\ log' = Append(log, Call("upload_document", arg, FALSE))
                          /\ Raise("Exception: upload_document")
                          /\ UNCHANGED << result, local_path >>
                       \/ \E location \in StoreResults :
                            /\ log' = Append(log, Answered("upload_document", arg, location))
                            /\ result' = location
                            /\ local_path' = JoinPath(UploadDir, User, PathName(file_path))
                            /\ pc' = "stored"
                            /\ UNCHANGED error
    /\ UNCHANGED << command, params, chat, handler, transcript_path,
                    produced, frames, logged >>
    /\ UNCHANGED << pulled, buffer, other, cvars >>

\* The first notification under a try that swallows its failure
UploadNotify_swallowed ==
    /\ pc = "stored"
    /\ \/ /\ log' = Append(log, Call("send_notification", UploadedMessage(result), TRUE))
          /\ pc' = "notified"
          /\ UNCHANGED << error, logged >>
       \/ /\ log' = Append(log, Call("send_notification", UploadedMessage(result), FALSE))
          /\ logged' = logged + 1
          /\ pc' = "notified"
          /\ UNCHANGED error
    /\ UNCHANGED << command, params, chat, handler, result, local_path,
                    transcript_path, produced, frames >>
    /\ UNCHANGED << pulled, buffer, other, cvars >>

\* line 115: await send_notification(...), outside any try
UploadNotify ==
    /\ pc = "stored"
    /\ \/ /\ log' = Append(log, Call("send_notification", UploadedMessage(result), TRUE))
          /\ pc' = "notified"
          /\ UNCHANGED error
       \/ /\ log' = Append(log, Call("send_notification", UploadedMessage(result), FALSE))
          /\ Raise("Exception: send_notification")
    /\ UNCHANGED << command, params, chat, handler, result, local_path,
                    transcript_path, produced, frames, logged >>
    /\ UNCHANGED << pulled, buffer, other, cvars >>

\* The store result yielded as soon as the store has returned
UploadYieldResult_unnotified ==
    /\ pc \in {"stored", "notified"}
    /\ Yield(Envelope(result))
    /\ pc' = "yielded_result"
    /\ UNCHANGED << command, params, chat, handler, result, local_path,
                    transcript_path, log, logged, error >>
    /\ UNCHANGED << pulled, buffer, other, cvars >>

\* line 116: yield json.dumps({"result": result})
UploadYieldResult ==
    /\ pc = "notified"
    /\ Yield(Envelope(result))
    /\ pc' = "yielded_result"
    /\ UNCHANGED << command, params, chat, handler, result, local_path,
                    transcript_path, log, logged, error >>
    /\ UNCHANGED << pulled, buffer, other, cvars >>

\* Transcription attempted whatever the inferred type
UploadGuessType_always ==
    /\ pc = "yielded_result"
    /\ pc' = "transcribing"
    /\ UNCHANGED << command, params, chat, handler, result, local_path,
                    transcript_path, produced, frames, log, logged, error >>
    /\ UNCHANGED << pulled, buffer, other, cvars >>

\* lines 118-119: resumed by the consumer, infer the MIME type
UploadGuessType ==
    /\ pc = "yielded_result"
    /\ pc' = IF IsAudio(guess_type(local_path)) THEN "transcribing" ELSE "done"
    /\ UNCHANGED << command, params, chat, handler, result, local_path,
                    transcript_path, produced, frames, log, logged, error >>
    /\ UNCHANGED << pulled, buffer, other, cvars >>

\* The location tested against None: a string never is
HasTranscript_not_None(location) == TRUE

\* line 127: if transcript_path:
HasTranscript(location) == location # ""

\* The transcription awaited outside the try
UploadTranscribe_uncaught ==
    /\ pc = "transcribing"
    /\ \/ \E location \in TranscriptResults :
            /\ log' = Append(log, Answered("transcribe_and_upload", Str(local_path), location))
            /\ transcript_path' = location
            /\ pc' = IF HasTranscript(location) THEN "transcribed" ELSE "done"
            /\ UNCHANGED error
       \/ /\ log' = Append(log, Call("transcribe_and_upload", Str(local_path), FALSE))
          /\ Raise("Exception: transcribe_and_upload")
          /\ UNCHANGED transcript_path
    /\ UNCHANGED << command, params, chat, handler, result, local_path,
                    produced, frames, logged >>
    /\ UNCHANGED << pulled, buffer, other, cvars >>

\* lines 120-127 and 135-136: await transcribe_and_upload(...) inside the try
UploadTranscribe ==
    /\ pc = "transcribing"
    /\ \/ \E location \in TranscriptResults :
            /\ log' = Append(log, Answered("transcribe_and_upload", Str(local_path), location))
            /\ transcript_path' = location
            /\ pc' = IF HasTranscript(location) THEN "transcribed" ELSE "done"
            /\ UNCHANGED logged
       \/ /\ log' = Append(log, Call("transcribe_and_upload", Str(local_path), FALSE))
          /\ logged' = logged + 1
          /\ pc' = "done"
          /\ UNCHANGED transcript_path
    /\ UNCHANGED << command, params, chat, handler, result, local_path,
                    produced, frames, error >>
    /\ UNCHANGED << pulled, buffer, other, cvars >>

\* The second notification awaited outside the try
UploadNotifyTranscript_uncaught ==
    /\ pc = "transcribed"
    /\ \/ /\ log' = Append(log, Call("send_notification",
                                     UploadedMessage(transcript_path), TRUE))
          /\ pc' = "notified_transcript"
          /\ UNCHANGED error
       \/ /\ log' = Append(log, Call("send_notification",
                                     UploadedMessage(transcript_path), FALSE))
          /\ Raise("Exception: send_notification")
    /\ UNCHANGED << command, params, chat, handler, result, local_path,
                    transcript_path, produced, frames, logged >>
    /\ UNCHANGED << pulled, buffer, other, cvars >>

\* lines 128-133 and 135-136: the second notification, inside the try
UploadNotifyTranscript ==
    /\ pc = "transcribed"
    /\ \/ /\ log' = Append(log, Call("send_notification",
                                     UploadedMessage(transcript_path), TRUE))
          /\ pc' = "notified_transcript"
          /\ UNCHANGED logged
       \/ /\ log' = Append(log, Call("send_notification",
                                     UploadedMessage(transcript_path), FALSE))
          /\ logged' = logged + 1
          /\ pc' = "done"
    /\ UNCHANGED << command, params, chat, handler, result, local_path,
                    transcript_path, produced, frames, error >>
    /\ UNCHANGED << pulled, buffer, other, cvars >>

\* The second frame carrying the stored location again
UploadYieldTranscript_result ==
    /\ pc = "notified_transcript"
    /\ Yield(Envelope(result))
    /\ pc' = "yielded_transcript"
    /\ UNCHANGED << command, params, chat, handler, result, local_path,
                    transcript_path, log, logged, error >>
    /\ UNCHANGED << pulled, buffer, other, cvars >>

\* line 134: yield json.dumps({"result": transcript_path})
UploadYieldTranscript ==
    /\ pc = "notified_transcript"
    /\ Yield(Envelope(transcript_path))
    /\ pc' = "yielded_transcript"
    /\ UNCHANGED << command, params, chat, handler, result, local_path,
                    transcript_path, log, logged, error >>
    /\ UNCHANGED << pulled, buffer, other, cvars >>

\* resumed after the second yield: the handler returns
UploadReturn ==
    /\ pc = "yielded_transcript"
    /\ pc' = "done"
    /\ UNCHANGED << command, params, chat, handler, result, local_path,
                    transcript_path, produced, frames, log, logged, error >>
    /\ UNCHANGED << pulled, buffer, other, cvars >>

\* The consumer stops iterating and the handler runs on to its next await
ConsumerStop_runs_on ==
    /\ pc \in {"yielded_result", "yielded_transcript", "yielded_single",
              "yielded_part", "yielded_last"}
    /\ pc' = "closed"
    /\ log' = IF pc = "yielded_result" /\ IsAudio(guess_type(local_path))
              THEN Append(log, Call("transcribe_and_upload", Str(local_path), FALSE))
              ELSE log
    /\ UNCHANGED << command, params, chat, handler, result, local_path,
                    transcript_path, produced, frames, logged, error >>
    /\ UNCHANGED << pulled, buffer, other, cvars >>

\* The consumer stops iterating at a yield (aclose): GeneratorExit is not an
\* Exception, so neither yield's surroundings catch it
ConsumerStop ==
    /\ pc \in {"yielded_result", "yielded_transcript", "yielded_single",
              "yielded_part", "yielded_last"}
    /\ pc' = "closed"
    /\ UNCHANGED << command, params, chat, handler, result, local_path,
                    transcript_path, produced, frames, log, logged, error >>
    /\ UNCHANGED << pulled, buffer, other, cvars >>

(***************************************************************************)
(* The handlers that await one backend operation and yield one envelope    *)
(***************************************************************************)
SingleEnvelopeHandlers ==
    { "_list_dir_handler", "_read_file_handler", "_write_file_handler",
      "_delete_path_handler", "_download_file_handler", "_vm_execute_handler",
      "_vm_input_handler", "_vm_keys_handler", "_send_notification_handler",
      "_list_sessions_handler", "_list_sessions_info_handler",
      "_list_documents_handler", "_get_memory_handler", "_set_memory_handler",
      "_reset_memory_handler", "_restart_terminal_handler" }

\* The backend operation each of them awaits
BackendOp(h) ==
    CASE h = "_list_dir_handler" -> "list_dir"
      [] h = "_read_file_handler" -> "read_file"
      [] h = "_write_file_handler" -> "write_file"
      [] h = "_delete_path_handler" -> "delete_path"
      [] h = "_download_file_handler" -> "download_file"
      [] h = "_vm_execute_handler" -> "vm_execute"
      [] h = "_vm_input_handler" -> "vm_send_input"
      [] h = "_vm_keys_handler" -> "vm_send_keys"
      [] h = "_send_notification_handler" -> "send_notification"
      [] h = "_list_sessions_handler" -> "list_sessions"
      [] h = "_list_sessions_info_handler" -> "list_sessions_info"
      [] h = "_list_documents_handler" -> "list_documents"
      [] h = "_get_memory_handler" -> "get_memory"
      [] h = "_set_memory_handler" -> "set_memory"
      [] h = "_reset_memory_handler" -> "reset_memory"
      [] OTHER -> "restart_terminal"

BackendResults == { "r1", "r2" }

\* What the envelope carries: a fixed acknowledgement, or the backend's answer
EnvelopeValue(h, answer) ==
    CASE h \in {"_vm_input_handler", "_vm_keys_handler",
                "_send_notification_handler"} -> "ok"
      [] h = "_restart_terminal_handler" -> "restarted"
      [] OTHER -> answer

\* The failure of the backend operation answered with an error envelope
SingleAwait_error_envelope ==
    /\ pc = "handler"
    /\ handler \in SingleEnvelopeHandlers
    /\ LET key == RequiredKey(handler)
           arg == IF key = "" THEN None ELSE params[key]
       IN IF key # "" /\ params[key] = Missing
          THEN /\ Raise("KeyError: " \o key)
               /\ UNCHANGED << result, log >>
          ELSE \/ /\ log' = Append(log, Call(BackendOp(handler), arg, FALSE))
                  /\ result' = "error"
                  /\ pc' = "answered"
                  /\ UNCHANGED error
               \/ \E answer \in BackendResults :
                    /\ log' = Append(log, Answered(BackendOp(handler), arg, answer))
                    /\ result' = EnvelopeValue(handler, answer)
                    /\ pc' = IF handler = "_restart_terminal_handler" /\ chat
                             THEN "restarted" ELSE "answered"
                    /\ UNCHANGED error
    /\ UNCHANGED << command, params, chat, handler, local_path,
                    transcript_path, produced, frames, logged >>
    /\ UNCHANGED << pulled, buffer, other, cvars >>

\* Read the required key, await the backend operation
SingleAwait ==
    /\ pc = "handler"
    /\ handler \in SingleEnvelopeHandlers
    /\ LET key == RequiredKey(handler)
           arg == IF key = "" THEN None ELSE params[key]
       IN IF key # "" /\ params[key] = Missing
          THEN /\ Raise("KeyError: " \o key)
               /\ UNCHANGED << result, log >>
          ELSE \/ /\ log' = Append(log, Call(BackendOp(handler), arg, FALSE))
                  /\ Raise("Exception: " \o BackendOp(handler))
                  /\ UNCHANGED result
               \/ \E answer \in BackendResults :
                    /\ log' = Append(log, Answered(BackendOp(handler), arg, answer))
                    /\ result' = EnvelopeValue(handler, answer)
                    /\ pc' = IF handler = "_restart_terminal_handler" /\ chat
                             THEN "restarted" ELSE "answered"
                    /\ UNCHANGED error
    /\ UNCHANGED << command, params, chat, handler, local_path,
                    transcript_path, produced, frames, logged >>
    /\ UNCHANGED << pulled, buffer, other, cvars >>

\* The envelope yielded without the notification
RestartNotify_skipped ==
    /\ pc = "restarted"
    /\ pc' = "answered"
    /\ UNCHANGED << command, params, chat, handler, result, local_path,
                    transcript_path, produced, frames, log, logged, error >>
    /\ UNCHANGED << pulled, buffer, other, cvars >>

\* _restart_terminal_handler, lines 369-370: notify through the chat handle
RestartNotify ==
    /\ pc = "restarted"
    /\ LET arg == [t |-> "message", prefix |-> "VM terminal restarted", about |-> ""]
       IN \/ /\ log' = Append(log, Call("chat.send_notification", arg, TRUE))
             /\ pc' = "answered"
             /\ UNCHANGED error
          \/ /\ log' = Append(log, Call("chat.send_notification", arg, FALSE))
             /\ Raise("Exception: chat.send_notification")
    /\ UNCHANGED << command, params, chat, handler, result, local_path,
                    transcript_path, produced, frames, logged >>
    /\ UNCHANGED << pulled, buffer, other, cvars >>

\* yield json.dumps({"result": ...})
SingleYield ==
    /\ pc = "answered"
    /\ Yield(Envelope(result))
    /\ pc' = "yielded_single"
    /\ UNCHANGED << command, params, chat, handler, result, local_path,
                    transcript_path, log, logged, error >>
    /\ UNCHANGED << pulled, buffer, other, cvars >>

\* resumed after the yield: the handler returns
SingleReturn ==
    /\ pc = "yielded_single"
    /\ pc' = "done"
    /\ UNCHANGED << command, params, chat, handler, result, local_path,
                    transcript_path, produced, frames, log, logged, error >>
    /\ UNCHANGED << pulled, buffer, other, cvars >>

(***************************************************************************)
(* The handlers that relay a backend stream: _team_chat_handler and         *)
(* _vm_execute_stream_handler                                               *)
(***************************************************************************)
\* Items one backend stream produces at most in the runs followed
MaxChunks == 3

StreamHandlers == { "_team_chat_handler", "_vm_execute_stream_handler" }

\* A text part of a stream, relayed unwrapped
Chunk(text) == [text |-> text]

ChunkTexts == { "", "a", "b" }

\* What a backend stream may produce next: a text part or None
StreamItems == { Chunk(t) : t \in ChunkTexts } \cup { None }

RECURSIVE Concat(_)
\* "".join(texts)
Concat(texts) ==
    IF texts = << >> THEN "" ELSE Head(texts) \o Concat(Tail(texts))

\* The texts of the text parts of a sequence of stream items
RECURSIVE Texts(_)
Texts(items) ==
    IF items = << >> THEN << >>
    ELSE IF Head(items) = None THEN Texts(Tail(items))
    ELSE << Head(items).text >> \o Texts(Tail(items))

\* coalesce_stream holds a chunk back until it emits
coalesce_hold(held, chunk) == Append(held, chunk)

\* coalesce_stream emits the chunks it holds as one merged chunk
coalesce_emit(held) == Chunk(Concat(Texts(held)))

\* The backend operation a stream handler takes its stream from
StreamOp_team_chat(h, c) ==
    IF h = "_team_chat_handler" THEN "team_chat" ELSE "vm_execute_stream"

StreamOp(h, c) ==
    IF h = "_team_chat_handler"
    THEN IF c THEN "chat.chat_stream" ELSE "team_chat"
    ELSE "vm_execute_stream"

\* The handler is asked for its first part: it reads its arguments and
\* creates the backend stream (lines 70-76, 234-236)
StreamOpen ==
    /\ pc = "handler"
    /\ handler \in StreamHandlers
    /\ IF handler = "_vm_execute_stream_handler" /\ params["command"] = Missing
       THEN /\ Raise("KeyError: command")
            /\ UNCHANGED log
       ELSE /\ log' = Append(log,
                  Call(StreamOp(handler, chat),
                       IF handler = "_team_chat_handler"
                       THEN Str(PromptOf(params))
                       ELSE params["command"], TRUE))
            /\ pc' = "streaming"
            /\ UNCHANGED error
    /\ UNCHANGED << command, params, chat, handler, result, local_path,
                    transcript_path, produced, frames, logged >>
    /\ UNCHANGED << pulled, buffer, other, cvars >>

\* _team_chat_handler, lines 77-78 over _yield_stream, lines 47-53: a None
\* part is dropped, any other part is yielded
TeamChatPull ==
    /\ pc = "streaming"
    /\ handler = "_team_chat_handler"
    /\ Len(pulled) < MaxChunks
    /\ \E part \in StreamItems :
         /\ pulled' = Append(pulled, part)
         /\ IF part = None
            THEN UNCHANGED << pc, produced, frames >>
            ELSE Yield(part) /\ pc' = "yielded_part"
    /\ UNCHANGED << command, params, chat, handler, result, local_path,
                    transcript_path, log, logged, error >>
    /\ UNCHANGED << buffer, other, cvars >>

\* _vm_execute_stream_handler with raw false, lines 240-242: every part is
\* yielded; dispatch_command (lines 416-419) skips a None part and asks the
\* handler for the next one
VmStreamPull ==
    /\ pc = "streaming"
    /\ handler = "_vm_execute_stream_handler"
    /\ ~RawOf(params)
    /\ Len(pulled) < MaxChunks
    /\ \E part \in StreamItems :
         /\ pulled' = Append(pulled, part)
         /\ Yield(part)
         /\ pc' = IF part = None THEN "streaming" ELSE "yielded_part"
    /\ UNCHANGED << command, params, chat, handler, result, local_path,
                    transcript_path, log, logged, error >>
    /\ UNCHANGED << buffer, other, cvars >>

\* line 239 with the chunk line 238 was handed, only for the first chunk
RawYield_first_only(chunk) ==
    IF frames = << >> THEN Yield(chunk) ELSE UNCHANGED << produced, frames >>

\* _vm_execute_stream_handler with raw true, lines 238-239: the handler
\* yields the chunk coalesce_stream hands it, as it is
RawYield(chunk) == Yield(chunk)

\* coalesce_stream (outside the sources, after section 4.3 of the
\* specification) takes the next chunk of the backend stream and holds it
CoalescePull ==
    /\ pc = "streaming"
    /\ handler = "_vm_execute_stream_handler"
    /\ RawOf(params)
    /\ Len(pulled) < MaxChunks
    /\ \E t \in ChunkTexts :
         /\ pulled' = Append(pulled, Chunk(t))
         /\ buffer' = coalesce_hold(buffer, Chunk(t))
    /\ UNCHANGED << command, params, chat, pc, handler, result, local_path,
                    transcript_path, produced, frames, log, logged, error >>
    /\ UNCHANGED << other, cvars >>

\* coalesce_stream hands on what it holds as one merged chunk, at a moment
\* of its choosing, and the handler yields it
CoalesceYield ==
    /\ pc = "streaming"
    /\ handler = "_vm_execute_stream_handler"
    /\ RawOf(params)
    /\ buffer # << >>
    /\ RawYield(coalesce_emit(buffer))
    /\ buffer' = << >>
    /\ pc' = "yielded_part"
    /\ UNCHANGED << command, params, chat, handler, result, local_path,
                    transcript_path, log, logged, error >>
    /\ UNCHANGED << pulled, other, cvars >>

\* The consumer asks for the next part: the handler's loop goes on
StreamResume ==
    /\ pc = "yielded_part"
    /\ pc' = "streaming"
    /\ UNCHANGED << command, params, chat, handler, result, local_path,
                    transcript_path, produced, frames, log, logged, error >>
    /\ UNCHANGED << pulled, buffer, other, cvars >>

\* The backend stream is exhausted while coalesce_stream still holds
\* chunks: it hands them on as the last merged chunk and the handler yields
\* it
CoalesceFlush ==
    /\ pc = "streaming"
    /\ handler = "_vm_execute_stream_handler"
    /\ RawOf(params)
    /\ buffer # << >>
    /\ RawYield(coalesce_emit(buffer))
    /\ buffer' = << >>
    /\ pc' = "yielded_last"
    /\ UNCHANGED << command, params, chat, handler, result, local_path,
                    transcript_path, log, logged, error >>
    /\ UNCHANGED << pulled, other, cvars >>

\* The stream the handler iterates is exhausted (a coalesced one only once
\* all it held is handed on): the loop ends and the handler returns (lines
\* 77-78, 238-242)
StreamEnd ==
    /\ pc = "streaming"
    /\ buffer = << >>
    /\ pc' = "done"
    /\ UNCHANGED << command, params, chat, handler, result, local_path,
                    transcript_path, produced, frames, log, logged, error >>
    /\ UNCHANGED << pulled, buffer, other, cvars >>

\* resumed after the last merged chunk: the handler returns
StreamReturn ==
    /\ pc = "yielded_last"
    /\ pc' = "done"
    /\ UNCHANGED << command, params, chat, handler, result, local_path,
                    transcript_path, produced, frames, log, logged, error >>
    /\ UNCHANGED << pulled, buffer, other, cvars >>

\* The backend stream raises: nothing on the way catches it
StreamRaise ==
    /\ pc = "streaming"
    /\ log' = Append(log, Call(StreamOp(handler, chat) \o " stream", None, FALSE))
    /\ Raise("Exception: " \o StreamOp(handler, chat))
    /\ UNCHANGED << command, params, chat, handler, result, local_path,
                    transcript_path, produced, frames, logged >>
    /\ UNCHANGED << pulled, buffer, other, cvars >>

(***************************************************************************)
(* WSApiClient: one call on its own connection                             *)
(***************************************************************************)
\* Ticks a wait may last before asyncio.wait_for gives up (the timeout
\* argument), the ticks one call is followed for, and the frames a
\* connection carries
Timeout == 2
MaxTime == 5
MaxFrames == 3

\* Texts the server may send
WireFrames ==
    { "{\"result\": \"ok\"}", "{\"error\": \"bad\"}", "{\"status\": 1}",
      "hello", "{\"result\": ", "123", "null", "\"no result\"", "[\"error\"]" }

\* json.loads(text): ok = FALSE stands for json.JSONDecodeError
json_loads(text) ==
    CASE text = "{\"result\": \"ok\"}" ->
             [ok |-> TRUE, value |-> [t |-> "dict", keys |-> {"result"}]]
      [] text = "{\"error\": \"bad\"}" ->
             [ok |-> TRUE, value |-> [t |-> "dict", keys |-> {"error"}]]
      [] text = "{\"status\": 1}" ->
             [ok |-> TRUE, value |-> [t |-> "dict", keys |-> {"status"}]]
      [] text = "123" -> [ok |-> TRUE, value |-> IntVal(123)]
      [] text = "null" -> [ok |-> TRUE, value |-> None]
      [] text = "\"no result\"" ->
             [ok |-> TRUE,
              value |-> Str(<<"n", "o", " ", "r", "e", "s", "u", "l", "t">>)]
      [] text = "[\"error\"]" ->
             [ok |-> TRUE, value |-> [t |-> "list", items |-> {"error"}]]
      [] OTHER -> [ok |-> FALSE, value |-> None]

KeyChars(key) ==
    IF key = "result" THEN <<"r", "e", "s", "u", "l", "t">>
                      ELSE <<"e", "r", "r", "o", "r">>

\* key in data: membership for a dict or a list, substring for a str, and
\* TypeError (ok = FALSE) for a value that is not a container
In(key, data) ==
    CASE data.t = "dict" -> [ok |-> TRUE, value |-> key \in data.keys]
      [] data.t = "list" -> [ok |-> TRUE, value |-> key \in data.items]
      [] data.t = "str" ->
             [ok |-> TRUE,
              value |-> \E i \in 1..Len(data.chars) :
                           /\ i + Len(KeyChars(key)) - 1 <= Len(data.chars)
                           /\ SubSeq(data.chars, i, i + Len(KeyChars(key)) - 1)
                                = KeyChars(key)]
      [] OTHER -> [ok |-> FALSE, value |-> FALSE]


\* The connection is open and the command sent (lines 52-53, 77-78, 113-114)
ClientInit ==
    /\ call \in {"request", "team_chat_stream", "vm_execute_stream"}
    /\ cpc = "waiting"
    /\ conn = "open"
    /\ waited = 0
    /\ elapsed = 0
    /\ arrived_at = 0
    /\ event = "none"
    /\ raw = ""
    /\ received = << >>
    /\ relayed = << >>
    /\ ret = None
    /\ failure = "none"

\* Time passes while the call waits for the next frame; only request and
\* team_chat_stream bound the wait
Tick ==
    /\ cpc = "waiting"
    /\ elapsed < MaxTime
    /\ call = "vm_execute_stream" \/ waited < Timeout
    /\ waited' = waited + 1
    /\ elapsed' = elapsed + 1
    /\ UNCHANGED << arrived_at, call, cpc, conn, event, raw, received, relayed, ret, failure >>
    /\ UNCHANGED << dvars, other >>

\* The server closes the connection with a close handshake (a normal
\* closure: recv then raises ConnectionClosedOK and async for stops)
ServerClose ==
    /\ conn = "open"
    /\ cpc \in {"waiting", "received", "yielded"}
    /\ conn' = "closed"
    /\ UNCHANGED << arrived_at, call, cpc, waited, elapsed, event, raw, received, relayed,
                    ret, failure >>
    /\ UNCHANGED << dvars, other >>

\* The connection is lost without a close handshake, or the server closes
\* it with an error code (an abnormal closure: recv and async for raise
\* ConnectionClosedError)
ConnectionLost ==
    /\ conn = "open"
    /\ cpc \in {"waiting", "received", "yielded"}
    /\ conn' = "aborted"
    /\ UNCHANGED << arrived_at, call, cpc, waited, elapsed, event, raw, received, relayed,
                    ret, failure >>
    /\ UNCHANGED << dvars, other >>

\* ws.recv() (or the next step of async for) returns a frame in time
Recv ==
    /\ cpc = "waiting"
    /\ conn = "open"
    /\ call = "vm_execute_stream" \/ waited < Timeout
    /\ Len(received) < MaxFrames
    /\ \E msg \in WireFrames :
         /\ raw' = msg
         /\ received' = Append(received, msg)
    /\ event' = "frame"
    /\ arrived_at' = elapsed
    /\ waited' = 0
    /\ cpc' = "received"
    /\ UNCHANGED << call, conn, elapsed, relayed, ret, failure >>
    /\ UNCHANGED << dvars, other >>

\* The body of `async with websockets.connect(uri) as ws` is left (lines 52,
\* 77, 113): __aexit__ awaits ws.close() before the caller sees the outcome.
\* On a connection still open the close handshake is under way; on one
\* already closed there is nothing to wait for and the outcome is seen at
\* once.
Outcome(raising, how) ==
    IF raising # "none" THEN "raised"
    ELSE IF call = "request" THEN "returned"
    ELSE IF how = "aclose" THEN "closed by the consumer"
    ELSE "ended"

LeaveAsyncWith(raising, how) ==
    IF conn = "open"
    THEN cpc' = "closing" /\ conn' = "closing"
    ELSE cpc' = Outcome(raising, how) /\ UNCHANGED conn

\* asyncio.wait_for gives up: request raises (lines 83-84), team_chat_stream
\* leaves its loop (lines 57-58); either way the body of `async with` is
\* left
WaitTimeout ==
    /\ cpc = "waiting"
    /\ call \in {"request", "team_chat_stream"}
    /\ waited = Timeout
    /\ event' = "timeout"
    /\ failure' = IF call = "request"
                  THEN "RuntimeError: Server did not respond in time"
                  ELSE failure
    /\ LeaveAsyncWith(failure', "timeout")
    /\ UNCHANGED << arrived_at, call, waited, elapsed, raw, received, relayed, ret >>
    /\ UNCHANGED << dvars, other >>

\* team_chat_stream taking the closed connection for the end of its
\* sequence, as async for does
RecvClosed_ends ==
    /\ cpc = "waiting"
    /\ conn \in {"closed", "aborted"}
    /\ event' = conn
    /\ IF call \in {"vm_execute_stream", "team_chat_stream"} /\ conn = "closed"
       THEN cpc' = "ended" /\ UNCHANGED failure
       ELSE cpc' = "raised" /\ failure' = "websockets.ConnectionClosed"
    /\ UNCHANGED << arrived_at, call, conn, waited, elapsed, raw, received, relayed, ret >>
    /\ UNCHANGED << dvars, other >>

\* The wait finds the connection closed: ws.recv() raises ConnectionClosed,
\* which nothing in request or team_chat_stream catches, whatever the kind
\* of closure; async for (line 115) ends on a normal closure and raises
\* ConnectionClosedError on an abnormal one
RecvClosed ==
    /\ cpc = "waiting"
    /\ conn \in {"closed", "aborted"}
    /\ event' = conn
    /\ IF call = "vm_execute_stream" /\ conn = "closed"
       THEN cpc' = "ended" /\ UNCHANGED failure
       ELSE cpc' = "raised" /\ failure' = "websockets.ConnectionClosed"
    /\ UNCHANGED << arrived_at, call, conn, waited, elapsed, raw, received, relayed, ret >>
    /\ UNCHANGED << dvars, other >>

\* request, lines 86-93: parse the frame, return it when it carries result
\* or error, else wait again; returning or raising leaves the body of
\* `async with`
RequestParse ==
    /\ cpc = "received"
    /\ call = "request"
    /\ LET parsed == json_loads(raw)
           data == parsed.value
       IN IF ~parsed.ok
          THEN cpc' = "waiting" /\ UNCHANGED << conn, ret, failure >>
          ELSE IF ~In("result", data).ok
          THEN /\ failure' = "TypeError"
               /\ UNCHANGED ret
               /\ LeaveAsyncWith("TypeError", event)
          ELSE IF In("result", data).value \/ In("error", data).value
          THEN /\ ret' = data
               /\ UNCHANGED failure
               /\ LeaveAsyncWith(failure, event)
          ELSE cpc' = "waiting" /\ UNCHANGED << conn, ret, failure >>
    /\ UNCHANGED << arrived_at, call, waited, elapsed, event, raw, received, relayed >>
    /\ UNCHANGED << dvars, other >>

\* team_chat_stream line 60, vm_execute_stream line 116: yield msg; the
\* generator is suspended with the frame in its consumer's hands
StreamYield ==
    /\ cpc = "received"
    /\ call \in {"team_chat_stream", "vm_execute_stream"}
    /\ relayed' = Append(relayed, raw)
    /\ cpc' = "yielded"
    /\ UNCHANGED << arrived_at, call, conn, waited, elapsed, event, raw, received, ret, failure >>
    /\ UNCHANGED << dvars, other >>

\* Time passes while the consumer holds the frame: no wait is running
Hold ==
    /\ cpc = "yielded"
    /\ elapsed < MaxTime
    /\ elapsed' = elapsed + 1
    /\ UNCHANGED << arrived_at, call, cpc, conn, waited, event, raw, received, relayed,
                    ret, failure >>
    /\ UNCHANGED << dvars, other >>

\* The consumer asks for the next frame: the loop goes round and the next
\* wait starts (lines 54-56, line 115)
StreamNext ==
    /\ cpc = "yielded"
    /\ cpc' = "waiting"
    /\ waited' = 0
    /\ UNCHANGED << arrived_at, call, conn, elapsed, event, raw, received, relayed,
                    ret, failure >>
    /\ UNCHANGED << dvars, other >>

\* The consumer closes the generator at the yield: GeneratorExit leaves the
\* loop and the body of `async with` (lines 52, 113)
ConsumerClose ==
    /\ cpc = "yielded"
    /\ event' = "aclose"
    /\ LeaveAsyncWith(failure, "aclose")
    /\ UNCHANGED << arrived_at, call, waited, elapsed, raw, received, relayed,
                    ret, failure >>
    /\ UNCHANGED << dvars, other >>

\* Time passes while ws.close() waits for the server's half of the close
\* handshake; the outcome is decided but the caller has not seen it
CloseWait ==
    /\ cpc = "closing"
    /\ elapsed < MaxTime
    /\ elapsed' = elapsed + 1
    /\ UNCHANGED << arrived_at, call, cpc, conn, waited, event, raw, received, relayed,
                    ret, failure >>
    /\ UNCHANGED << dvars, other >>

\* ws.close() is over and `async with` is left: the caller sees the return
\* value, the exception or the end of the sequence
AsyncWithExit ==
    /\ cpc = "closing"
    /\ cpc' = Outcome(failure, event)
    /\ conn' = "closed"
    /\ UNCHANGED << arrived_at, call, waited, elapsed, event, raw, received, relayed,
                    ret, failure >>
    /\ UNCHANGED << dvars, other >>

(***************************************************************************)
(* Specifications                                                          *)
(***************************************************************************)
\* No client call while a dispatch is followed, and no dispatch while a
\* client call is followed
ClientIdle ==
    /\ call = "none"
    /\ cpc = "idle"
    /\ conn = "closed"
    /\ waited = 0
    /\ elapsed = 0
    /\ arrived_at = 0
    /\ event = "none"
    /\ raw = ""
    /\ received = << >>
    /\ relayed = << >>
    /\ ret = None
    /\ failure = "none"

DispatchIdle ==
    /\ command = ""
    /\ params = None
    /\ chat = FALSE
    /\ pc = "idle"
    /\ handler = "None"
    /\ result = ""
    /\ local_path = << >>
    /\ transcript_path = ""
    /\ produced = << >>
    /\ frames = << >>
    /\ log = << >>
    /\ logged = 0
    /\ error = "none"
    /\ pulled = << >>
    /\ buffer = << >>
    /\ other = NoInvocation

Init == DispatchInit /\ other = NoInvocation /\ ClientIdle

Next ==
    \/ dispatch_command
    \/ UploadStore
    \/ UploadNotify
    \/ UploadYieldResult
    \/ UploadGuessType
    \/ UploadTranscribe
    \/ UploadNotifyTranscript
    \/ UploadYieldTranscript
    \/ UploadReturn
    \/ SingleAwait
    \/ RestartNotify
    \/ SingleYield
    \/ SingleReturn
    \/ StreamOpen
    \/ TeamChatPull
    \/ VmStreamPull
    \/ CoalescePull
    \/ CoalesceYield
    \/ StreamResume
    \/ CoalesceFlush
    \/ StreamEnd
    \/ StreamReturn
    \/ StreamRaise
    \/ ConsumerStop

Spec == Init /\ [][Next]_vars

(***************************************************************************)
(* Two dispatch_command invocations served by one process: one runs until  *)
(* the event loop lets the other run                                       *)
(***************************************************************************)
\* What an invocation holds in its arguments and locals, and what has been
\* observed of it
Locals ==
    [command |-> command, params |-> params, chat |-> chat, pc |-> pc,
     handler |-> handler, result |-> result, local_path |-> local_path,
     transcript_path |-> transcript_path, produced |-> produced,
     frames |-> frames, log |-> log, logged |-> logged, error |-> error,
     pulled |-> pulled, buffer |-> buffer]

\* The same switch with result kept in one place for both invocations
Switch_result_shared ==
    /\ other # NoInvocation
    /\ other' = Locals
    /\ command' = other.command
    /\ params' = other.params
    /\ chat' = other.chat
    /\ pc' = other.pc
    /\ handler' = other.handler
    /\ result' = result
    /\ local_path' = other.local_path
    /\ transcript_path' = other.transcript_path
    /\ produced' = other.produced
    /\ frames' = other.frames
    /\ log' = other.log
    /\ logged' = other.logged
    /\ error' = other.error
    /\ pulled' = other.pulled
    /\ buffer' = other.buffer
    /\ UNCHANGED cvars

\* The running invocation is suspended (at an await or a yield, or it is
\* over) and the other one runs on with its own arguments and locals
Switch ==
    /\ other # NoInvocation
    /\ other' = Locals
    /\ command' = other.command
    /\ params' = other.params
    /\ chat' = other.chat
    /\ pc' = other.pc
    /\ handler' = other.handler
    /\ result' = other.result
    /\ local_path' = other.local_path
    /\ transcript_path' = other.transcript_path
    /\ produced' = other.produced
    /\ frames' = other.frames
    /\ log' = other.log
    /\ logged' = other.logged
    /\ error' = other.error
    /\ pulled' = other.pulled
    /\ buffer' = other.buffer
    /\ UNCHANGED cvars

\* The commands and arguments of the two invocations followed: the first of
\* any of three kinds of handler, the second of the two kinds that hold
\* backend answers in locals
ConcurrentCommands == { "upload_document", "restart_terminal", "team_chat" }

SecondCommands == { "upload_document", "restart_terminal" }

ConcurrentParams(cmd) ==
    IF cmd = "upload_document"
    THEN [NoParams EXCEPT !["file_path"] = Str(<<"d", "/", "s", ".", "m", "p", "3">>)]
    ELSE NoParams

ConcurrentInit ==
    /\ DispatchInit
    /\ command \in ConcurrentCommands
    /\ params = ConcurrentParams(command)
    /\ \E cmd \in SecondCommands, handle \in BOOLEAN :
         other = [command |-> cmd, params |-> ConcurrentParams(cmd),
                  chat |-> handle, pc |-> "created", handler |-> "None",
                  result |-> "", local_path |-> << >>, transcript_path |-> "",
                  produced |-> << >>, frames |-> << >>, log |-> << >>,
                  logged |-> 0, error |-> "none", pulled |-> << >>,
                  buffer |-> << >>]
    /\ ClientIdle

ConcurrentNext ==
    \/ dispatch_command
    \/ UploadStore
    \/ UploadNotify
    \/ UploadYieldResult
    \/ UploadGuessType
    \/ UploadTranscribe
    \/ UploadNotifyTranscript
    \/ UploadYieldTranscript
    \/ UploadReturn
    \/ SingleAwait
    \/ RestartNotify
    \/ SingleYield
    \/ SingleReturn
    \/ StreamOpen
    \/ TeamChatPull
    \/ StreamResume
    \/ StreamEnd
    \/ StreamRaise
    \/ ConsumerStop
    \/ Switch

ConcurrentSpec == ConcurrentInit /\ [][ConcurrentNext]_vars

ClientStart == DispatchIdle /\ ClientInit

ClientNext ==
    \/ Tick
    \/ ServerClose
    \/ ConnectionLost
    \/ Recv
    \/ WaitTimeout
    \/ RecvClosed
    \/ RequestParse
    \/ StreamYield
    \/ Hold
    \/ StreamNext
    \/ ConsumerClose
    \/ CloseWait
    \/ AsyncWithExit

ClientSpec == ClientStart /\ [][ClientNext]_vars

(***************************************************************************)
(* Properties of dispatch_command, checked under Spec                      *)
(***************************************************************************)
\* The dispatch has stopped: it returned, raised, or its consumer closed it
Finished == pc \in {"done", "raised", "closed"}

Uploading == handler = "_upload_document_handler"

\* op was awaited and returned / raised
Returned(op) == \E i \in 1..Len(log) : log[i].op = op /\ log[i].ok
Failed(op) == \E i \in 1..Len(log) : log[i].op = op /\ ~log[i].ok
Awaited(op) == Returned(op) \/ Failed(op)

Stored == Returned("upload_data") \/ Returned("upload_document")

\* The notification that follows the store is the second operation awaited
FirstNotificationFailed ==
    Len(log) >= 2 /\ log[2].op = "send_notification" /\ ~log[2].ok
FirstNotificationReturned ==
    Len(log) >= 2 /\ log[2].op = "send_notification" /\ log[2].ok

\* C1: once a dispatch of a command name that is not registered has been
\* started, it has raised the unknown-command error, no handler has been
\* entered, no frame yielded and no backend operation awaited, whatever the
\* args and the chat handle.
C1_UnknownCommandFails ==
    (command \notin RegisteredCommands /\ pc # "created")
        => /\ pc = "raised"
           /\ error = "ValueError: Unknown command"
           /\ handler = "None"
           /\ produced = << >>
           /\ frames = << >>
           /\ log = << >>

C1_Witness ==
    /\ command = "upload"
    /\ chat
    /\ params = NoParams
    /\ pc = "raised"

\* C2 as stated: whenever the store succeeded, a finished upload_document
\* dispatch that its consumer did not cut short has produced the
\* store-result frame, whether or not send_notification raised.
C2_StoreResultFrameDespiteNotificationFailure ==
    (Uploading /\ Stored /\ pc \in {"done", "raised"})
        => (Len(frames) >= 1 /\ frames[1] = Envelope(result))

\* C2 amended: the store-result frame is produced once the notification
\* that follows a successful store has returned; when that notification
\* raises, its exception leaves the dispatch and no frame is produced.
C2_NotificationFailurePropagates ==
    Uploading =>
        /\ (FirstNotificationReturned /\ pc # "notified")
               => (Len(frames) >= 1 /\ frames[1] = Envelope(result))
        /\ FirstNotificationFailed
               => /\ Stored
                  /\ pc = "raised"
                  /\ error = "Exception: send_notification"
                  /\ frames = << >>

C2_Witness ==
    /\ Uploading
    /\ Stored
    /\ FirstNotificationFailed
    /\ pc = "raised"

\* C3: an upload_document dispatch whose transcription backend call raised
\* has ended normally with exactly one frame, the store-result, and no
\* error.
C3_TranscriptionFailureSwallowed ==
    (Uploading /\ Failed("transcribe_and_upload"))
        => /\ pc = "done"
           /\ error = "none"
           /\ frames = << Envelope(result) >>
           /\ produced = frames

C3_Witness ==
    /\ Uploading
    /\ IsAudio(guess_type(local_path))
    /\ Failed("transcribe_and_upload")
    /\ pc = "done"
    /\ Len(frames) = 1

\* C4: a completed upload_document dispatch of an audio file whose store,
\* transcription and both notifications returned, the transcript location
\* being non-empty, yielded exactly two frames: the store-result, then the
\* transcript-result.
C4_TwoFramesInOrder ==
    (/\ Uploading
     /\ pc = "done"
     /\ Stored
     /\ Returned("transcribe_and_upload")
     /\ transcript_path # ""
     /\ \A i \in 1..Len(log) : log[i].ok)
        => /\ frames = << Envelope(result), Envelope(transcript_path) >>
           /\ result \in StoreResults
           /\ transcript_path \in TranscriptResults
           /\ produced = frames

C4_Witness ==
    /\ Uploading
    /\ pc = "done"
    /\ IsAudio(guess_type(local_path))
    /\ Len(log) = 4
    /\ \A i \in 1..Len(log) : log[i].ok
    /\ Len(frames) = 2

\* C5: an upload_document dispatch of a file whose inferred MIME type is
\* not audio never awaits the transcription backend, and once complete has
\* yielded exactly one frame, the store-result; for the file-path input and
\* for the payload input.
C5_NotAudioOneFrame ==
    (Uploading /\ Stored /\ ~IsAudio(guess_type(local_path)))
        => /\ ~Awaited("transcribe_and_upload")
           /\ pc = "done" => frames = << Envelope(result) >>

C5_Witness ==
    /\ Uploading
    /\ Returned("upload_data")
    /\ guess_type(local_path) = <<"video", "mp4">>
    /\ pc = "done"
    /\ Len(frames) = 1

\* Text that is base64: characters of the alphabet in groups of four, the
\* last group padded with one or two "="
IsBase64Text(v) ==
    /\ v.t = "str"
    /\ Len(v.chars) % 4 = 0
    /\ \A i \in 1..Len(v.chars) :
          \/ IsB64Char(v.chars[i])
          \/ /\ v.chars[i] = "="
             /\ i >= Len(v.chars) - 1
             /\ \A j \in i..Len(v.chars) : v.chars[j] = "="

IsBytesLike(v) == v.t \in {"bytes", "bytearray"}

\* C6 as stated: an upload_document dispatch whose args carry a payload
\* with no destination file name (absent, None or empty), or a payload that
\* is neither bytes-like nor base64 text, has raised a parameter error with
\* zero frames and no backend operation awaited.
C6_PayloadParameterErrors ==
    (/\ Uploading
     /\ pc # "handler"
     /\ params["file_data"] \notin {Missing, None}
     /\ \/ params["file_name"] \in {Missing, None, Str(<< >>)}
        \/ ~(IsBytesLike(params["file_data"]) \/ IsBase64Text(params["file_data"])))
        => /\ pc = "raised"
           /\ error \in { "ValueError: file_name required when file_data provided",
                          "TypeError: file_data must be bytes or base64 string",
                          "binascii.Error" }
           /\ frames = << >>
           /\ log = << >>

(***************************************************************************)
(* Properties of WSApiClient, checked under ClientSpec                     *)
(***************************************************************************)
Unresponsive == "RuntimeError: Server did not respond in time"
ClosedWithoutResult == "RuntimeError: Server closed connection without a result"

\* A frame qualifies when it parses as JSON and the parsed object has the
\* key result or the key error
Qualifies(msg) ==
    /\ json_loads(msg).ok
    /\ json_loads(msg).value.t = "dict"
    /\ json_loads(msg).value.keys \cap {"result", "error"} # {}

\* C7 as stated: request returns the first qualifying frame received,
\* parsed; the frames before it are dropped without a failure, so request
\* raises nothing but the unresponsive and the connection-closed failures.
C7_RequestDiscardsUntilQualifying ==
    call = "request" =>
        /\ failure \in {"none", Unresponsive, ClosedWithoutResult,
                        "websockets.ConnectionClosed"}
        /\ cpc = "returned"
               => /\ Qualifies(received[Len(received)])
                  /\ ret = json_loads(received[Len(received)]).value
                  /\ \A i \in 1..(Len(received) - 1) : ~Qualifies(received[i])

\* C8 as stated: the timeout window is the call's, so a request call still
\* waiting for a qualifying frame on an open connection has not outlasted
\* its timeout since the command was sent, whatever frames have arrived.
C8_RequestOverWithinTimeoutOfCall ==
    (call = "request" /\ conn = "open" /\ cpc \in {"waiting", "received"})
        => elapsed <= Timeout

\* C9 as stated: a request call whose wait finds the connection closed
\* raises the connection-closed-without-result failure.
C9_ClosedRaisesWithoutResult ==
    (call = "request" /\ event = "closed")
        => /\ cpc = "raised"
           /\ failure = ClosedWithoutResult

\* C10 as stated: a streaming call has relayed, unchanged and in arrival
\* order, every frame received (all but the one in hand, about to be
\* yielded); team_chat_stream ends without a failure when a wait times out,
\* vm_execute_stream when its wait finds the connection closed, however it
\* was closed; nothing is relayed once the sequence has ended.
C10_StreamsRelayVerbatim ==
    /\ [](call \in {"team_chat_stream", "vm_execute_stream"} =>
            /\ relayed = SubSeq(received, 1, Len(relayed))
            /\ Len(received) - Len(relayed) = IF cpc = "received" THEN 1 ELSE 0
            /\ (call = "team_chat_stream" /\ event = "timeout")
                   => (cpc \in {"closing", "ended"} /\ failure = "none")
            /\ (call = "vm_execute_stream" /\ event \in {"closed", "aborted"})
                   => (cpc = "ended" /\ failure = "none")
            /\ cpc = "ended" => IF call = "team_chat_stream"
                                THEN event = "timeout"
                                ELSE event \in {"closed", "aborted"})
    /\ [][cpc = "ended" => relayed' = relayed]_vars

(***************************************************************************)
(* Dispatch: frames, relays and backend calls                              *)
(***************************************************************************)
IsPart(part) == part # None

\* The parts of a sequence of stream items, without the None items
NonNone(items) == SelectSeq(items, IsPart)

\* The errors a dispatch raises for its command name or its arguments
ParameterErrors ==
    { "ValueError: Unknown command",
      "ValueError: file_name required when file_data provided",
      "binascii.Error",
      "TypeError: file_data must be bytes or base64 string" } \cup
    { "KeyError: " \o k : k \in {"file_path", "path", "command", "message"} }

AllAnswered == \A i \in 1..Len(log) : log[i].ok

\* C11: a dispatch of a registered command whose backend operations all
\* answer is over either with at least one frame yielded or with a routing
\* or parameter error; it never completes normally with zero frames, not
\* even when the backend stream of a streaming command is empty or made of
\* None items only.
C11_FrameOrParameterError ==
    (command \in RegisteredCommands /\ Finished /\ AllAnswered)
        => \/ Len(frames) >= 1
           \/ pc = "raised" /\ error \in ParameterErrors

\* C12: the frames dispatch_command has yielded are the parts its handler
\* has yielded with the None parts removed: each other part once, unchanged,
\* in the handler's order, and no frame besides.
C12_DispatchForwardsHandlerParts ==
    frames = NonNone(produced)

C12_Witness ==
    /\ pc = "done"
    /\ Len(produced) = 3
    /\ Len(frames) = 2
    /\ produced[2] = None
    /\ frames[1] # frames[2]

\* C13: chat and team_chat resolve to the same handler, which creates one
\* backend stream for the prompt (the chat handle's chat_stream when a
\* handle is present, the one-off team_chat otherwise, never both) and
\* yields its parts; nothing of this depends on which of the two names was
\* dispatched.
C13_ChatAliasesTeamChat ==
    (command \in {"chat", "team_chat"} /\ pc # "created")
        => /\ handler = "_team_chat_handler"
           /\ handler = _HANDLERS_get("chat")
           /\ handler = _HANDLERS_get("team_chat")
           /\ pc # "handler" =>
                /\ log[1] = Call(IF chat THEN "chat.chat_stream" ELSE "team_chat",
                                 Str(PromptOf(params)), TRUE)
                /\ \A i \in 2..Len(log) :
                       log[i].op \notin {"chat.chat_stream", "team_chat"}
           /\ frames = NonNone(pulled)

C13_Witness ==
    /\ command = "chat"
    /\ chat
    /\ pc = "done"
    /\ params["prompt"] # Missing
    /\ Len(pulled) = 3
    /\ Len(frames) = 2

Notifications ==
    { i \in 1..Len(log) : log[i].op \in {"send_notification", "chat.send_notification"} }

\* C15: restart_terminal awaits the restart first; with a chat handle it then
\* awaits one notification through the handle, and only then yields its one
\* envelope; without a handle it awaits no notification and yields the one
\* envelope all the same.
C15_RestartThenNotifyThenFrame ==
    handler = "_restart_terminal_handler"
        => /\ Len(log) <= (IF chat THEN 2 ELSE 1)
           /\ Len(log) >= 1 => log[1].op = "restart_terminal"
           /\ Len(log) >= 2 => /\ log[1].ok
                               /\ log[2].op = "chat.send_notification"
           /\ Len(frames) <= 1
           /\ frames # << >> =>
                /\ frames = << Envelope("restarted") >>
                /\ Len(log) = (IF chat THEN 2 ELSE 1)
                /\ AllAnswered
                /\ Cardinality(Notifications) = (IF chat THEN 1 ELSE 0)
           /\ pc = "done" => Len(frames) = 1

C15_Witness ==
    /\ handler = "_restart_terminal_handler"
    /\ chat
    /\ pc = "done"
    /\ Len(log) = 2
    /\ frames = << Envelope("restarted") >>

\* C16: a single-envelope command whose backend operation raises ends with
\* that exception raised out of the dispatch and no frame yielded; its
\* envelope is yielded only after the backend operation has returned, and
\* carries what the handler makes of the answer.
C16_BackendFailurePropagates ==
    handler \in SingleEnvelopeHandlers
        => /\ ~AllAnswered =>
                /\ pc = "raised"
                /\ frames = << >>
                /\ ~log[Len(log)].ok
                /\ error = "Exception: " \o log[Len(log)].op
           /\ frames # << >> =>
                /\ Len(log) >= 1
                /\ log[1].op = BackendOp(handler)
                /\ log[1].ok
                /\ frames = << Envelope(EnvelopeValue(handler, log[1].answer)) >>

C16_Witness ==
    /\ handler = "_write_file_handler"
    /\ pc = "raised"
    /\ Len(log) = 1
    /\ log[1].op = "write_file"
    /\ ~log[1].ok
    /\ frames = << >>

\* C17: an upload whose file is audio and whose transcription returns an
\* empty location is over with the store-result frame alone and the first
\* notification alone: no second notification, no second frame.
C17_EmptyTranscriptOneFrame ==
    (Uploading /\ Returned("transcribe_and_upload") /\ transcript_path = "")
        => /\ pc = "done"
           /\ frames = << Envelope(result) >>
           /\ Cardinality(Notifications) = 1
           /\ Len(log) = 3
           /\ logged = 0

C17_Witness ==
    /\ Uploading
    /\ IsAudio(guess_type(local_path))
    /\ Len(log) = 3
    /\ log[3] = Answered("transcribe_and_upload", Str(local_path), "")
    /\ pc = "done"
    /\ Len(frames) = 1

\* C19: in an upload the store has returned before the first notification is
\* awaited; a first frame means that notification has returned, and the
\* frame carries the store's answer; a second frame means the transcription
\* and then the second notification have returned, and the frame carries the
\* transcription's answer; the notifications name the answer of the call
\* they follow.
C19_FramesFollowTheirNotifications ==
    Uploading
        => /\ Len(log) >= 2 =>
                /\ log[1].op \in {"upload_data", "upload_document"}
                /\ log[1].ok
                /\ log[2].op = "send_notification"
                /\ log[2].arg = UploadedMessage(log[1].answer)
           /\ Len(frames) >= 1 =>
                /\ Len(log) >= 2
                /\ log[2].ok
                /\ frames[1] = Envelope(log[1].answer)
           /\ Len(log) >= 4 =>
                /\ log[3].op = "transcribe_and_upload"
                /\ log[3].ok
                /\ log[4].op = "send_notification"
                /\ log[4].arg = UploadedMessage(log[3].answer)
           /\ Len(frames) >= 2 =>
                /\ Len(log) = 4
                /\ log[4].ok
                /\ frames[2] = Envelope(log[3].answer)
           /\ Len(frames) <= 2
           /\ Notifications \subseteq {2, 4}

C19_Witness ==
    /\ Uploading
    /\ Len(frames) = 2
    /\ Len(log) = 4
    /\ log[2].ok
    /\ log[4].ok
    /\ frames[1] # frames[2]

\* C20: in an upload the transcription is awaited only once the first frame
\* has been yielded and the consumer has resumed the handler; while the
\* handler is suspended at its first yield, and when the consumer has
\* stopped there, neither the transcription nor the second notification has
\* been awaited.
C20_TranscriptionAfterConsumerResumes ==
    Uploading
        => /\ Awaited("transcribe_and_upload") =>
                /\ Len(frames) >= 1
                /\ pc # "yielded_result"
           /\ pc \in {"notified", "yielded_result"} =>
                /\ Len(log) = 2
                /\ ~Awaited("transcribe_and_upload")
           /\ (pc = "closed" /\ Len(frames) = 1) =>
                /\ Len(log) = 2
                /\ ~Awaited("transcribe_and_upload")
                /\ Cardinality(Notifications) = 1

C20_Witness ==
    /\ Uploading
    /\ IsAudio(guess_type(local_path))
    /\ pc = "closed"
    /\ Len(frames) = 1
    /\ Len(log) = 2

\* The frames an invocation has yielded by the point it has reached when it
\* runs alone, from its own arguments and the answers its own backend calls
\* received
FramesAlone(inv) ==
    CASE inv.handler = "_upload_document_handler" ->
            (IF Len(inv.log) >= 2 /\ inv.log[2].ok /\ inv.pc # "notified"
             THEN << Envelope(inv.log[1].answer) >> ELSE << >>)
            \o
            (IF Len(inv.log) >= 4 /\ inv.log[4].ok /\ inv.pc # "notified_transcript"
             THEN << Envelope(inv.log[3].answer) >> ELSE << >>)
      [] inv.handler \in SingleEnvelopeHandlers ->
            IF inv.pc \in {"yielded_single", "done", "closed"}
            THEN << Envelope(EnvelopeValue(inv.handler, inv.log[1].answer)) >>
            ELSE << >>
      [] inv.handler = "_team_chat_handler" -> NonNone(inv.pulled)
      [] inv.handler = "_vm_execute_stream_handler" /\ ~RawOf(inv.params) ->
            NonNone(inv.pulled)
      [] inv.handler = "_vm_execute_stream_handler" /\ RawOf(inv.params) ->
            inv.produced
      [] OTHER -> << >>

\* C18: with two dispatch_command invocations interleaved at their awaits and
\* yields in any way, each has yielded the frames it yields alone given its
\* own arguments and the answers its own backend calls received: nothing
\* one invocation does shows in the frames of the other.
C18_InvocationsIndependent ==
    other # NoInvocation
        => /\ frames = FramesAlone(Locals)
           /\ other.frames = FramesAlone(other)

C18_Witness ==
    /\ other # NoInvocation
    /\ handler = "_upload_document_handler"
    /\ other.handler = "_upload_document_handler"
    /\ pc = "done"
    /\ other.pc = "done"
    /\ Len(frames) = 2
    /\ Len(other.frames) = 2
    /\ frames[1] # other.frames[1]
    /\ log[2].ok
    /\ Len(other.log) = 4

\* C21: in an upload, a second notification that raises (after a
\* transcription that returned a non-empty location) ends the dispatch as a
\* transcription that raises does: the exception is logged and goes no
\* further, no transcript-result frame is yielded and the dispatch completes
\* with its one frame; a first notification that raises leaves the dispatch
\* raised with that exception and without a frame.
C21_SecondNotificationFailureSwallowed ==
    Uploading
        => /\ (Len(log) = 4 /\ ~log[4].ok) =>
                /\ log[4].op = "send_notification"
                /\ log[3].ok
                /\ HasTranscript(log[3].answer)
                /\ pc = "done"
                /\ error = "none"
                /\ logged = 1
                /\ frames = << Envelope(result) >>
           /\ (Len(log) = 3 /\ ~log[3].ok) =>
                /\ log[3].op = "transcribe_and_upload"
                /\ pc = "done"
                /\ error = "none"
                /\ logged = 1
                /\ frames = << Envelope(result) >>
           /\ (Len(log) = 2 /\ ~log[2].ok) =>
                /\ log[2].op = "send_notification"
                /\ pc = "raised"
                /\ error = "Exception: send_notification"
                /\ logged = 0
                /\ frames = << >>

C21_Witness ==
    /\ Uploading
    /\ Len(log) = 4
    /\ log[4] = Call("send_notification", UploadedMessage("tr1"), FALSE)
    /\ pc = "done"
    /\ Len(frames) = 1
    /\ logged = 1

\* C22: team_chat_stream ends its sequence only by a wait that has lasted
\* the whole timeout since it started (at the call, or when the consumer
\* asked for the frame after the last one received), however long the call
\* has run in all and however long the consumer held the frames, and a
\* call that has frames arriving within the timeout is not over; a wait
\* that finds the connection closed, by a close handshake or abnormally,
\* raises out of team_chat_stream, while the close handshake ends the
\* sequence of vm_execute_stream.
C22_TeamChatStreamEndsOnQuietPeriodOnly ==
    /\ (call = "team_chat_stream" /\ (cpc = "ended" \/ event = "timeout"))
           => /\ cpc \in {"closing", "ended"}
              /\ event = "timeout"
              /\ failure = "none"
              /\ waited = Timeout
              /\ elapsed - arrived_at >= Timeout
    /\ (call = "team_chat_stream" /\ event = "frame")
           => cpc \in {"received", "yielded", "waiting"}
    /\ (call = "team_chat_stream" /\ event \in {"closed", "aborted"})
           => /\ cpc = "raised"
              /\ failure = "websockets.ConnectionClosed"
              /\ conn = event
    /\ (call = "vm_execute_stream" /\ event = "closed")
           => /\ cpc = "ended"
              /\ failure = "none"

C22_Witness ==
    /\ call = "team_chat_stream"
    /\ event = "closed"
    /\ cpc = "raised"
    /\ Len(relayed) = 2
    /\ elapsed > Timeout
    /\ waited < Timeout

====
